---- MODULE Spec2Model ----
(***************************************************************************)
(* Model of the csv-to-parquet-export lambda                               *)
(* (src/lambda-functions/csv-to-parquet-export/main.py).                   *)
(*                                                                         *)
(* Strings are sequences of one-character strings, so that basename,       *)
(* splitext, split, strip, lower, re.sub and re.match are computed on the  *)
(* characters as Python computes them.                                     *)
(*                                                                         *)
(* The S3 and Glue primitives are external: a call either raises (the      *)
(* exception propagates, the invocation ends) or has its documented        *)
(* effect.                                                                 *)
(***************************************************************************)
EXTENDS Integers, Sequences, FiniteSets, TLC

VARIABLES
  \* derive_name_from_key called on its own
  s3_key, name_result,
  \* _clean_nbsp_and_strip + _deduplicate_columns called on their own
  columns, new_cols,
  \* read_csv_safely called on its own
  explicit_encoding, decodable, read_result,
  \* _stabilize_dtypes on one object column
  cells, n_cells, dtype,
  \* move_to_raw_history
  mv, mv_pc, mv_calls, store,
  \* _delete_prefix
  listing, page_i, obj_i, to_delete, requests, del_pc,
  \* handler
  pc, event, GLUE_DATABASE, LOAD_MODE, PARQUET_PREFIX, CSV_ENCODING, catalog,
  load_mode, table_name, outcome, before,
  \* the output bucket's keys and the S3/Glue calls issued so far
  bucket_objs, io

nameVars   == <<s3_key, name_result>>
colVars    == <<columns, new_cols>>
readVars   == <<explicit_encoding, decodable, read_result>>
typeVars   == <<cells, n_cells, dtype>>
moveVars   == <<mv, mv_pc, mv_calls, store>>
deleteVars == <<listing, page_i, obj_i, to_delete, requests, del_pc>>
handlerVars == <<pc, event, GLUE_DATABASE, LOAD_MODE, PARQUET_PREFIX, CSV_ENCODING, catalog,
                 load_mode, table_name, outcome, before>>
s3Vars     == <<bucket_objs, io>>
vars == <<nameVars, colVars, readVars, typeVars, moveVars, deleteVars, handlerVars, s3Vars>>

fileVars   == <<columns, explicit_encoding, decodable, cells, n_cells>>
notMoveVars == <<nameVars, colVars, readVars, typeVars, deleteVars, handlerVars, s3Vars>>
notDeleteVars == <<nameVars, colVars, readVars, typeVars, moveVars, handlerVars>>

\* Python's None, where a str is expected (None), where a value modelled as
\* a sequence of characters is expected (NoneSeq), and a call not yet made
None == "None"
NoneSeq == <<"None">>
NotCalled == [ok |-> FALSE, error |-> "not called"]

-----------------------------------------------------------------------------
(* Characters and the str methods the program uses *)

UpperLetters == <<"A","B","C","D","E","F","G","H","I","J","K","L","M",
                  "N","O","P","Q","R","S","T","U","V","W","X","Y","Z">>
LowerLetters == <<"a","b","c","d","e","f","g","h","i","j","k","l","m",
                  "n","o","p","q","r","s","t","u","v","w","x","y","z">>
Digits == {"0","1","2","3","4","5","6","7","8","9"}

Range(s) == {s[i] : i \in DOMAIN s}

IsUpper(c) == c \in Range(UpperLetters)
IsLetter(c) == c \in Range(UpperLetters) \cup Range(LowerLetters)
\* the character class [a-zA-Z0-9_]
IsWordChar(c) == IsLetter(c) \/ c \in Digits \/ c = "_"

\* the no-break space U+00A0 and the characters str.strip() removes
NBSP == "nbsp"
IsSpace(c) == c \in {" ", "\t", "\n", NBSP}

LowerChar(c) ==
  IF IsUpper(c) THEN LowerLetters[CHOOSE i \in DOMAIN UpperLetters : UpperLetters[i] = c]
  ELSE c

\* str.lower()
Lower(s) == [i \in DOMAIN s |-> LowerChar(s[i])]

\* s[a:b] with 1-based inclusive bounds
Slice(s, a, b) == IF a > b THEN <<>> ELSE SubSeq(s, a, b)

\* s with its leading and trailing positions outside keep removed
Trimmed(s, keep) ==
  IF keep = {} THEN <<>>
  ELSE Slice(s, CHOOSE i \in keep : \A j \in keep : i <= j,
                CHOOSE i \in keep : \A j \in keep : i >= j)

\* str.strip()
Strip(s) == Trimmed(s, {i \in DOMAIN s : ~IsSpace(s[i])})

\* str.strip("_")
StripUnderscores(s) == Trimmed(s, {i \in DOMAIN s : s[i] # "_"})

StartsWith(s, p) == Len(p) <= Len(s) /\ SubSeq(s, 1, Len(p)) = p

Str_csv == <<".", "c", "s", "v">>

-----------------------------------------------------------------------------
(* derive_name_from_key *)

\* table_name = base.lower()[:255]
MaxNameLen == 255

\* os.path.basename: what follows the last "/"
Basename(p) ==
  LET slashes == {i \in DOMAIN p : p[i] = "/"}
  IN  IF slashes = {} THEN p
      ELSE Slice(p, (CHOOSE i \in slashes : \A j \in slashes : i >= j) + 1, Len(p))

\* os.path.splitext on a name without "/": the extension starts at the last
\* dot, unless only dots precede that dot
Splitext(f) ==
  LET dots == {i \in DOMAIN f : f[i] = "."}
      d == CHOOSE i \in dots : \A j \in dots : i >= j
  IN  IF dots = {} \/ (\A i \in 1..(d - 1) : f[i] = ".")
      THEN [name |-> f, ext |-> <<>>]
      ELSE [name |-> Slice(f, 1, d - 1), ext |-> Slice(f, d, Len(f))]

\* name.split("_", 1)[0]: what precedes the first underscore
BeforeFirstUnderscore(name) ==
  LET us == {i \in DOMAIN name : name[i] = "_"}
  IN  IF us = {} THEN name
      ELSE Slice(name, 1, (CHOOSE i \in us : \A j \in us : i <= j) - 1)

\* re.match(r"^[a-zA-Z][a-zA-Z0-9_]*$", base): in Python "$" matches at the
\* end of the string and also just before a newline that ends the string
MatchesNamePattern(base) ==
  /\ Len(base) >= 1
  /\ IsLetter(base[1])
  /\ \/ \A i \in 2..Len(base) : IsWordChar(base[i])
     \/ /\ base[Len(base)] = "\n"
        /\ \A i \in 2..(Len(base) - 1) : IsWordChar(base[i])

Failed(err) == [ok |-> FALSE, error |-> err]
Returned(v) == [ok |-> TRUE, value |-> v]

derive_name_from_key(key) ==
  LET filename == Basename(key)
      parts == Splitext(filename)
      base == BeforeFirstUnderscore(parts.name)
  IN  IF Lower(parts.ext) # Str_csv THEN Failed("Expected a .csv file")
      ELSE IF base = <<>> THEN Failed("No valid name found before underscore")
      ELSE IF ~MatchesNamePattern(base) THEN Failed("Invalid table name")
      ELSE Returned(Slice(Lower(base), 1, IF Len(base) < MaxNameLen THEN Len(base) ELSE MaxNameLen))

-----------------------------------------------------------------------------
(* _clean_nbsp_and_strip and _deduplicate_columns, on the column headers *)

\* c.replace("\u00a0", " ").strip()
CleanHeader(c) == Strip([i \in DOMAIN c |-> IF c[i] = NBSP THEN " " ELSE c[i]])

\* df.columns = [c.replace("\u00a0", " ").strip() for c in df.columns]
clean_nbsp_and_strip(cols) == [i \in DOMAIN cols |-> CleanHeader(cols[i])]

\* re.sub(r"[^a-zA-Z0-9_]", "_", col).lower().strip("_")
SanitizeBase(col) ==
  StripUnderscores(Lower([i \in DOMAIN col |-> IF IsWordChar(col[i]) THEN col[i] ELSE "_"]))

\* f"{base}_{n}" for the suffixes the bounds allow
Decimal(n) == <<CHOOSE d \in Digits : d = ToString(n)>>
Suffixed(base, n) == base \o <<"_">> \o Decimal(n)

\* the loop of _deduplicate_columns from column i on; seen maps a base to
\* the number of times it was seen again
RECURSIVE DedupLoop(_, _, _, _)
DedupLoop(cols, i, seen, out) ==
  IF i > Len(cols) THEN out
  ELSE LET base == SanitizeBase(cols[i])
       IN  IF base \in DOMAIN seen
           THEN DedupLoop(cols, i + 1, [seen EXCEPT ![base] = @ + 1],
                          Append(out, Suffixed(base, seen[base] + 1)))
           ELSE DedupLoop(cols, i + 1,
                          [b \in DOMAIN seen \cup {base} |-> IF b = base THEN 0 ELSE seen[b]],
                          Append(out, base))

deduplicate_columns(cols) == DedupLoop(cols, 1, <<>>, <<>>)

\* handler lines 282-283
SanitizeColumns(cols) == deduplicate_columns(clean_nbsp_and_strip(cols))

-----------------------------------------------------------------------------
(* read_csv_safely *)


\* FallbackEncodings with cp1252 tried before utf-8-sig
FallbackEncodings_swapped == <<"utf-8", "cp1252", "utf-8-sig", "iso-8859-1">>

FallbackEncodings == <<"utf-8", "utf-8-sig", "cp1252", "iso-8859-1">>

\* encodings = [explicit_encoding] if explicit_encoding else []
\* encodings += ["utf-8", "utf-8-sig", "cp1252", "iso-8859-1"]
CandidateEncodings(explicit) ==
  (IF explicit \in {None, ""} THEN <<>> ELSE <<explicit>>) \o FallbackEncodings

\* the for loop from candidate i on: return at the first encoding
\* wr.s3.read_csv decodes with, collect the others in tried
RECURSIVE ReadLoop(_, _, _, _)
ReadLoop(encodings, i, tried, ok_with) ==
  IF i > Len(encodings) THEN [ok |-> FALSE, error |-> "UnicodeDecodeError", tried |-> tried]
  ELSE IF encodings[i] \in ok_with THEN [ok |-> TRUE, value |-> encodings[i], tried |-> tried]
  ELSE ReadLoop(encodings, i + 1, Append(tried, encodings[i]), ok_with)

\* ok_with: the encodings under which wr.s3.read_csv raises no UnicodeDecodeError
read_csv_safely(explicit, ok_with) == ReadLoop(CandidateEncodings(explicit), 1, <<>>, ok_with)

-----------------------------------------------------------------------------
(* _stabilize_dtypes, on one object column *)

\* truthy = {"true", "t", "yes", "y", "1"}
truthy == {<<"t","r","u","e">>, <<"t">>, <<"y","e","s">>, <<"y">>, <<"1">>}
\* falsy = {"false", "f", "no", "n", "0"}
falsy == {<<"f","a","l","s","e">>, <<"f">>, <<"n","o">>, <<"n">>, <<"0">>}

\* dt.notna().mean() >= 0.9 and num.notna().mean() >= 0.9, as a ratio
ThresholdNum == 9
ThresholdDen == 10

\* sample.str.replace(",", "")
NotComma(c) == c # ","
RemoveCommas(v) == SelectSeq(v, NotComma)

\* pd.to_numeric(..., errors="coerce") gives a number: an optional sign,
\* digits with at most one decimal point
ParsesAsNumber(v) ==
  LET u == IF Len(v) > 0 /\ v[1] \in {"-", "+"} THEN Slice(v, 2, Len(v)) ELSE v
  IN  /\ \E i \in DOMAIN u : u[i] \in Digits
      /\ \A i \in DOMAIN u : u[i] \in Digits \cup {"."}
      /\ Cardinality({i \in DOMAIN u : u[i] = "."}) <= 1

\* num % 1 == 0: no fractional digit other than 0
IsWhole(v) ==
  \A i \in DOMAIN v : \A j \in DOMAIN v : (v[i] = "." /\ j > i) => v[j] = "0"

\* the texts pd.to_datetime(..., errors="coerce") gives a timestamp for,
\* among the cell texts of the model
Date_iso == <<"2","0","2","4","-","0","1","-","0","5">>
Date_compact == <<"2","0","2","4","0","1","0","5">>
ParsesAsDatetime(v) == v \in {Date_iso, Date_compact}

\* a column is a bag of cell texts: cells[v] is the number of cells holding v.
\* NoneSeq is the null cell.
NonNull(col) == {v \in DOMAIN col : v # NoneSeq /\ col[v] > 0}

RECURSIVE SumOver(_, _)
SumOver(col, S) ==
  IF S = {} THEN 0
  ELSE LET v == CHOOSE x \in S : TRUE IN col[v] + SumOver(col, S \ {v})

\* sample = col.dropna().astype(str).str.strip(): the texts of the sample
\* and the number of sample cells whose stripped text satisfies a test
SampleSize(col) == SumOver(col, NonNull(col))
\* lower = sample.str.lower(); unique_vals = set(lower.unique())
unique_vals(col) == {Lower(Strip(v)) : v \in NonNull(col)}
DatetimeCount(col) == SumOver(col, {v \in NonNull(col) : ParsesAsDatetime(Strip(v))})
NumberCount(col) == SumOver(col, {v \in NonNull(col) : ParsesAsNumber(RemoveCommas(Strip(v)))})

\* x.mean() >= 0.9 for k non-null of n
AtLeastThreshold(k, n) == ThresholdDen * k >= ThresholdNum * n


\* stabilize_dtype with the numeric test made before the datetime test
stabilize_dtype_numeric_first(col) ==
  IF NonNull(col) = {} THEN "string"
  ELSE IF unique_vals(col) \subseteq (truthy \cup falsy) /\ Cardinality(unique_vals(col)) <= 2
       THEN "boolean"
  ELSE IF AtLeastThreshold(NumberCount(col), SampleSize(col))
       THEN IF \A v \in NonNull(col) :
                 ParsesAsNumber(RemoveCommas(Strip(v))) => IsWhole(RemoveCommas(Strip(v)))
            THEN "Int64" ELSE "float64"
  ELSE IF AtLeastThreshold(DatetimeCount(col), SampleSize(col)) THEN "datetime64"
  ELSE "string"

\* the body of the loop of _stabilize_dtypes: the dtype given to the column
stabilize_dtype(col) ==
  IF NonNull(col) = {} THEN "string"
  ELSE IF unique_vals(col) \subseteq (truthy \cup falsy) /\ Cardinality(unique_vals(col)) <= 2
       THEN "boolean"
  ELSE IF AtLeastThreshold(DatetimeCount(col), SampleSize(col)) THEN "datetime64"
  ELSE IF AtLeastThreshold(NumberCount(col), SampleSize(col))
       THEN IF \A v \in NonNull(col) :
                 ParsesAsNumber(RemoveCommas(Strip(v))) => IsWhole(RemoveCommas(Strip(v)))
            THEN "Int64" ELSE "float64"
  ELSE "string"

-----------------------------------------------------------------------------
(* move_to_raw_history *)

Str_raw_history == <<"r","a","w","_","h","i","s","t","o","r","y">>

\* filename = src_key.split("/")[-1]
LastSegment(key) == Basename(key)
\* dest_bucket = dest_bucket or bucket
DestBucket(a) == IF a.dest_bucket \in {None, ""} THEN a.bucket ELSE a.dest_bucket
\* dest_key = f"raw_history/{table_name}/{filename}"
DestKey(a) == Str_raw_history \o <<"/">> \o a.table_name \o <<"/">> \o LastSegment(a.src_key)

SrcObject(a) == <<a.bucket, a.src_key>>
DestObject(a) == <<DestBucket(a), DestKey(a)>>


\* MoveGuard without the comparison of source and destination
MoveGuard_skipped ==
  /\ mv_pc = "guard"
  /\ mv_pc' = "copy"
  /\ UNCHANGED <<mv, mv_calls, store>>
  /\ UNCHANGED notMoveVars

\* if bucket == dest_bucket and src_key == dest_key: raise ValueError
MoveGuard ==
  /\ mv_pc = "guard"
  /\ mv_pc' = IF DestBucket(mv) = mv.bucket /\ mv.src_key = DestKey(mv) THEN "raised" ELSE "copy"
  /\ UNCHANGED <<mv, mv_calls, store>>
  /\ UNCHANGED notMoveVars

\* s3.copy_object(...): raises when the source is absent or the call fails
MoveCopy ==
  /\ mv_pc = "copy"
  /\ \/ /\ SrcObject(mv) \in store
        /\ store' = store \cup {DestObject(mv)}
        /\ mv_calls' = Append(mv_calls, [op |-> "copy_object", ok |-> TRUE])
        /\ mv_pc' = "head"
     \/ /\ store' = store
        /\ mv_calls' = Append(mv_calls, [op |-> "copy_object", ok |-> FALSE])
        /\ mv_pc' = "raised"
  /\ UNCHANGED mv
  /\ UNCHANGED notMoveVars

\* s3.head_object(...): raises when the destination is absent or the call fails
MoveHead ==
  /\ mv_pc = "head"
  /\ \/ /\ DestObject(mv) \in store
        /\ mv_calls' = Append(mv_calls, [op |-> "head_object", ok |-> TRUE])
        /\ mv_pc' = "delete"
     \/ /\ mv_calls' = Append(mv_calls, [op |-> "head_object", ok |-> FALSE])
        /\ mv_pc' = "raised"
  /\ UNCHANGED <<mv, store>>
  /\ UNCHANGED notMoveVars

\* s3.delete_object(Bucket=bucket, Key=src_key), then return
MoveDelete ==
  /\ mv_pc = "delete"
  /\ \/ /\ store' = store \ {SrcObject(mv)}
        /\ mv_calls' = Append(mv_calls, [op |-> "delete_object", ok |-> TRUE])
        /\ mv_pc' = "returned"
     \/ /\ store' = store
        /\ mv_calls' = Append(mv_calls, [op |-> "delete_object", ok |-> FALSE])
        /\ mv_pc' = "raised"
  /\ UNCHANGED mv
  /\ UNCHANGED notMoveVars

-----------------------------------------------------------------------------
(* _delete_prefix: one step per iteration of its loops.  listing is what    *)
(* paginator.paginate(Bucket, Prefix) yields, page by page.                 *)

\* if len(to_delete["Objects"]) == 1000
BatchSize == 1000

\* s3.delete_objects(Bucket=bucket, Delete=to_delete): the keys of the
\* request leave the bucket, or the call raises
DeleteObjects(batch, next_pc) ==
  \/ /\ requests' = Append(requests, batch)
     /\ bucket_objs' = bucket_objs \ Range(batch)
     /\ io' = Append(io, "delete_objects")
     /\ to_delete' = <<>>
     /\ del_pc' = next_pc
  \/ /\ requests' = Append(requests, batch)
     /\ io' = Append(io, "delete_objects")
     /\ del_pc' = "raised"
     /\ UNCHANGED <<bucket_objs, to_delete>>

\* for page in paginator.paginate(...): the next page is fetched
NextPage ==
  /\ del_pc = "loop"
  /\ page_i < Len(listing)
  /\ obj_i > (IF page_i = 0 THEN 0 ELSE Len(listing[page_i]))
  /\ page_i' = page_i + 1
  /\ obj_i' = 1
  /\ io' = Append(io, "list_objects_v2")
  /\ UNCHANGED <<listing, to_delete, requests, del_pc, bucket_objs>>
  /\ UNCHANGED notDeleteVars


\* AppendObject with the batch sent once it holds more than 1000 keys
AppendObject_late_flush ==
  /\ del_pc = "loop"
  /\ page_i >= 1
  /\ obj_i <= Len(listing[page_i])
  /\ obj_i' = obj_i + 1
  /\ LET batch == Append(to_delete, listing[page_i][obj_i])
     IN  IF Len(batch) > BatchSize
         THEN DeleteObjects(batch, "loop")
         ELSE /\ to_delete' = batch
              /\ UNCHANGED <<requests, bucket_objs, io, del_pc>>
  /\ UNCHANGED <<listing, page_i>>
  /\ UNCHANGED notDeleteVars

\* for obj in page.get("Contents", []): append the key, and send the batch
\* when it holds 1000 keys
AppendObject ==
  /\ del_pc = "loop"
  /\ page_i >= 1
  /\ obj_i <= Len(listing[page_i])
  /\ obj_i' = obj_i + 1
  /\ LET batch == Append(to_delete, listing[page_i][obj_i])
     IN  IF Len(batch) = BatchSize
         THEN DeleteObjects(batch, "loop")
         ELSE /\ to_delete' = batch
              /\ UNCHANGED <<requests, bucket_objs, io, del_pc>>
  /\ UNCHANGED <<listing, page_i>>
  /\ UNCHANGED notDeleteVars


\* FinalFlush without the send of the last, partial batch
FinalFlush_dropped ==
  /\ del_pc = "loop"
  /\ page_i = Len(listing)
  /\ obj_i > (IF page_i = 0 THEN 0 ELSE Len(listing[page_i]))
  /\ del_pc' = "returned"
  /\ UNCHANGED <<requests, bucket_objs, io, to_delete>>
  /\ UNCHANGED <<listing, page_i, obj_i>>
  /\ UNCHANGED notDeleteVars

\* after the last page: if to_delete["Objects"]: s3.delete_objects(...)
FinalFlush ==
  /\ del_pc = "loop"
  /\ page_i = Len(listing)
  /\ obj_i > (IF page_i = 0 THEN 0 ELSE Len(listing[page_i]))
  /\ IF to_delete # <<>>
     THEN DeleteObjects(to_delete, "returned")
     ELSE /\ del_pc' = "returned"
          /\ UNCHANGED <<requests, bucket_objs, io, to_delete>>
  /\ UNCHANGED <<listing, page_i, obj_i>>
  /\ UNCHANGED notDeleteVars

-----------------------------------------------------------------------------
(* handler *)

Str_incremental == <<"i","n","c","r","e","m","e","n","t","a","l">>
Str_overwrite == <<"o","v","e","r","w","r","i","t","e">>

notHandlerVars == <<nameVars, moveVars, new_cols, read_result, dtype, fileVars>>

\* base_prefix = f"{PARQUET_PREFIX.strip('/')}/" if PARQUET_PREFIX else ""
StripSlashes(x) == Trimmed(x, {i \in DOMAIN x : x[i] # "/"})
BasePrefix == IF PARQUET_PREFIX # <<>> THEN StripSlashes(PARQUET_PREFIX) \o <<"/">> ELSE <<>>
\* table_prefix = f"{base_prefix}{table_name}/"
TablePrefix(name) == BasePrefix \o name \o <<"/">>

UnderPrefix(objs, prefix) == {k \in objs : StartsWith(k, prefix)}

\* the keys list_objects_v2 returns for a prefix, in pages of at most
\* ListPageSize keys; a listing has at least one page
ListPageSize == 2

RECURSIVE SeqOfSet(_)
SeqOfSet(S) == IF S = {} THEN <<>>
               ELSE LET k == CHOOSE x \in S : TRUE IN <<k>> \o SeqOfSet(S \ {k})

Paginate(keys) ==
  IF keys = <<>> THEN << <<>> >>
  ELSE [p \in 1..((Len(keys) + ListPageSize - 1) \div ListPageSize) |->
          SubSeq(keys, (p - 1) * ListPageSize + 1,
                 IF p * ListPageSize < Len(keys) THEN p * ListPageSize ELSE Len(keys))]

\* forced_encoding = event.get("encoding") or os.getenv("CSV_ENCODING")
ForcedEncoding == IF event.encoding \in {None, ""} THEN CSV_ENCODING ELSE event.encoding


\* HandlerStart with the table name taken from the key without validation
HandlerStart_unchecked ==
  /\ pc = "start"
  /\ load_mode' = Lower(IF event.load_mode = NoneSeq THEN LOAD_MODE ELSE event.load_mode)
  /\ table_name' = Lower(BeforeFirstUnderscore(Splitext(Basename(event.csv_upload_key)).name))
  /\ pc' = "ensure_database"
  /\ outcome' = outcome
  /\ UNCHANGED <<event, before, GLUE_DATABASE, LOAD_MODE, PARQUET_PREFIX, CSV_ENCODING, catalog>>
  /\ UNCHANGED <<s3Vars, deleteVars, notHandlerVars>>

\* lines 239-246: the event is read, the load mode lowercased, the table
\* name derived; a ValueError of derive_name_from_key ends the invocation
HandlerStart ==
  /\ pc = "start"
  /\ load_mode' = Lower(IF event.load_mode = NoneSeq THEN LOAD_MODE ELSE event.load_mode)
  /\ LET r == derive_name_from_key(event.csv_upload_key)
     IN  IF r.ok
         THEN /\ table_name' = r.value
              /\ pc' = "ensure_database"
              /\ outcome' = outcome
         ELSE /\ table_name' = table_name
              /\ pc' = "raised"
              /\ outcome' = "NamingError"
  /\ UNCHANGED <<event, before, GLUE_DATABASE, LOAD_MODE, PARQUET_PREFIX, CSV_ENCODING, catalog>>
  /\ UNCHANGED <<s3Vars, deleteVars, notHandlerVars>>

\* line 260: ensure_database(glue_db); AlreadyExists is swallowed, any other
\* exception of wr.catalog.create_database propagates
EnsureDatabase ==
  /\ pc = "ensure_database"
  /\ io' = Append(io, "create_database")
  /\ \/ pc' = "mode" /\ outcome' = outcome
     \/ pc' = "raised" /\ outcome' = "CatalogError"
  /\ UNCHANGED <<event, before, GLUE_DATABASE, LOAD_MODE, PARQUET_PREFIX, CSV_ENCODING, catalog,
                 load_mode, table_name, bucket_objs>>
  /\ UNCHANGED <<deleteVars, notHandlerVars>>


\* SelectLoadMode with every mode other than incremental treated as overwrite
SelectLoadMode_else_overwrite ==
  /\ pc = "mode"
  /\ IF load_mode # Str_incremental
     THEN /\ pc' = "delete_prefix"
          /\ listing' = Paginate(SeqOfSet(UnderPrefix(bucket_objs, TablePrefix(table_name))))
          /\ page_i' = 0
          /\ obj_i' = 1
          /\ to_delete' = <<>>
          /\ requests' = <<>>
          /\ del_pc' = "loop"
          /\ outcome' = outcome
     ELSE /\ pc' = "read" /\ outcome' = outcome
          /\ UNCHANGED deleteVars
  /\ UNCHANGED <<event, before, GLUE_DATABASE, LOAD_MODE, PARQUET_PREFIX, CSV_ENCODING, catalog,
                 load_mode, table_name>>
  /\ UNCHANGED <<s3Vars, notHandlerVars>>

\* lines 263-268: overwrite calls _delete_prefix(out_bucket, table_prefix);
\* a mode that is neither overwrite nor incremental raises ValueError
SelectLoadMode ==
  /\ pc = "mode"
  /\ IF load_mode = Str_overwrite
     THEN /\ pc' = "delete_prefix"
          /\ listing' = Paginate(SeqOfSet(UnderPrefix(bucket_objs, TablePrefix(table_name))))
          /\ page_i' = 0
          /\ obj_i' = 1
          /\ to_delete' = <<>>
          /\ requests' = <<>>
          /\ del_pc' = "loop"
          /\ outcome' = outcome
     ELSE /\ IF load_mode # Str_incremental
             THEN pc' = "raised" /\ outcome' = "LoadModeError"
             ELSE pc' = "read" /\ outcome' = outcome
          /\ UNCHANGED deleteVars
  /\ UNCHANGED <<event, before, GLUE_DATABASE, LOAD_MODE, PARQUET_PREFIX, CSV_ENCODING, catalog,
                 load_mode, table_name>>
  /\ UNCHANGED <<s3Vars, notHandlerVars>>

\* an exception of _delete_prefix propagates out of the handler
DeletePrefixRaised ==
  /\ pc = "delete_prefix"
  /\ del_pc = "raised"
  /\ pc' = "raised"
  /\ outcome' = "StorageError"
  /\ UNCHANGED <<event, before, GLUE_DATABASE, LOAD_MODE, PARQUET_PREFIX, CSV_ENCODING, catalog,
                 load_mode, table_name>>
  /\ UNCHANGED <<s3Vars, deleteVars, notHandlerVars>>

\* line 266: wr.catalog.delete_table_if_exists(database, table), once
\* _delete_prefix has returned
DropTable ==
  /\ pc = "delete_prefix"
  /\ del_pc = "returned"
  /\ io' = Append(io, "delete_table_if_exists")
  /\ \/ /\ catalog' = catalog \ {table_name}
        /\ pc' = "read"
        /\ outcome' = outcome
     \/ /\ catalog' = catalog
        /\ pc' = "raised"
        /\ outcome' = "CatalogError"
  /\ UNCHANGED <<event, before, GLUE_DATABASE, LOAD_MODE, PARQUET_PREFIX, CSV_ENCODING,
                 load_mode, table_name, bucket_objs>>
  /\ UNCHANGED <<deleteVars, notHandlerVars>>

\* line 275: df = read_csv_safely(input_path, explicit_encoding=forced_encoding)
ReadCsv ==
  /\ pc = "read"
  /\ io' = Append(io, "read_csv")
  /\ LET r == read_csv_safely(ForcedEncoding, decodable)
     IN  /\ read_result' = r
         /\ IF r.ok THEN pc' = "clean" /\ outcome' = outcome
                    ELSE pc' = "raised" /\ outcome' = "DecodeError"
  /\ UNCHANGED <<event, before, GLUE_DATABASE, LOAD_MODE, PARQUET_PREFIX, CSV_ENCODING, catalog,
                 load_mode, table_name, bucket_objs>>
  /\ UNCHANGED <<deleteVars, nameVars, moveVars, new_cols, dtype, fileVars>>

\* lines 282-288: _clean_nbsp_and_strip, _deduplicate_columns, _stabilize_dtypes
CleanAndNormalize ==
  /\ pc = "clean"
  /\ new_cols' = SanitizeColumns(columns)
  /\ dtype' = stabilize_dtype(cells)
  /\ pc' = "write"
  /\ UNCHANGED <<event, before, GLUE_DATABASE, LOAD_MODE, PARQUET_PREFIX, CSV_ENCODING, catalog,
                 load_mode, table_name, outcome>>
  /\ UNCHANGED <<s3Vars, deleteVars, nameVars, moveVars, read_result, fileVars>>

\* the key of a file wr.s3.to_parquet writes under dataset_root
Str_part == <<"p","a","r","t","0">>
NewObjectKey(name) == TablePrefix(name) \o Str_part

\* lines 294-302: wr.s3.to_parquet(..., dataset=True, database, table) writes
\* a file under the table prefix and registers the table, or raises
WriteParquet ==
  /\ pc = "write"
  /\ io' = Append(io, "to_parquet")
  /\ \/ /\ bucket_objs' = bucket_objs \cup {NewObjectKey(table_name)}
        /\ catalog' = catalog \cup {table_name}
        /\ pc' = "done"
        /\ outcome' = "ok"
     \/ /\ UNCHANGED <<bucket_objs, catalog>>
        /\ pc' = "raised"
        /\ outcome' = "WriteError"
  /\ UNCHANGED <<event, before, GLUE_DATABASE, LOAD_MODE, PARQUET_PREFIX, CSV_ENCODING,
                 load_mode, table_name>>
  /\ UNCHANGED <<deleteVars, notHandlerVars>>

-----------------------------------------------------------------------------
(* What each part holds while it is not the part under study *)

EmptyColumn == [v \in {NoneSeq} |-> 0]

IdleName == s3_key = <<>> /\ name_result = NotCalled
IdleCols == columns = <<>> /\ new_cols = NoneSeq
IdleRead == explicit_encoding = None /\ decodable = {} /\ read_result = NotCalled
IdleTypes == cells = EmptyColumn /\ n_cells = 0 /\ dtype = None
IdleMove == mv = NotCalled /\ mv_pc = "idle" /\ mv_calls = <<>> /\ store = {}
IdleDelete == /\ listing = <<>> /\ page_i = 0 /\ obj_i = 1
              /\ to_delete = <<>> /\ requests = <<>> /\ del_pc = "idle"
IdleS3 == bucket_objs = {} /\ io = <<>>
IdleHandler == /\ pc = "idle" /\ event = NotCalled /\ GLUE_DATABASE = None /\ LOAD_MODE = <<>>
               /\ PARQUET_PREFIX = <<>> /\ CSV_ENCODING = None /\ catalog = {}
               /\ load_mode = NoneSeq /\ table_name = NoneSeq /\ outcome = None
               /\ before = NotCalled

-----------------------------------------------------------------------------
(* derive_name_from_key on the storage keys  dir + run + stem + extension *)

MaxStemLen == 3
LongRun == 254

StemChars == {"a", "Z", "7", "_", ".", "\n", "-"}
Stems == UNION {[1..n -> StemChars] : n \in 0..MaxStemLen}
Runs == {<<>>, [i \in 1..LongRun |-> "a"]}
Dirs == {<<>>, <<"d",".","x","/">>}
Extensions == {<<>>, <<".","c","s","v">>, <<".","C","S","V">>, <<".","t","x","t">>, <<".","c","s">>}

InitName ==
  /\ \E d \in Dirs, r \in Runs, t \in Stems, e \in Extensions : s3_key = d \o r \o t \o e
  /\ name_result = NotCalled
  /\ IdleCols /\ IdleRead /\ IdleTypes /\ IdleMove /\ IdleDelete /\ IdleS3 /\ IdleHandler

DeriveName ==
  /\ name_result = NotCalled
  /\ name_result' = derive_name_from_key(s3_key)
  /\ UNCHANGED <<s3_key, colVars, readVars, typeVars, moveVars, deleteVars, handlerVars, s3Vars>>

SpecName == InitName /\ [][DeriveName]_vars

-----------------------------------------------------------------------------
(* the column sanitization on the headers of a table *)

MaxCols == 3
MaxHeaderChars == 5

HeaderChars == {"a", "B", "1", "_", NBSP}

RECURSIVE TotalLen(_)
TotalLen(cols) == IF cols = <<>> THEN 0 ELSE Len(Head(cols)) + TotalLen(Tail(cols))

InitCols ==
  /\ columns = <<>>
  /\ new_cols = NoneSeq
  /\ IdleName /\ IdleRead /\ IdleTypes /\ IdleMove /\ IdleDelete /\ IdleS3 /\ IdleHandler

notColVars == <<nameVars, readVars, typeVars, moveVars, deleteVars, handlerVars, s3Vars>>

\* the table gets one more column, with an empty header
AddHeader ==
  /\ new_cols = NoneSeq
  /\ Len(columns) < MaxCols
  /\ columns' = Append(columns, <<>>)
  /\ UNCHANGED <<new_cols, notColVars>>

\* the last header gets one more character
AppendChar ==
  /\ new_cols = NoneSeq
  /\ columns # <<>>
  /\ TotalLen(columns) < MaxHeaderChars
  /\ \E c \in HeaderChars :
       columns' = [columns EXCEPT ![Len(columns)] = Append(@, c)]
  /\ UNCHANGED <<new_cols, notColVars>>

Sanitize ==
  /\ new_cols = NoneSeq
  /\ new_cols' = SanitizeColumns(columns)
  /\ UNCHANGED <<columns, notColVars>>

SpecCols == InitCols /\ [][AddHeader \/ AppendChar \/ Sanitize]_vars

-----------------------------------------------------------------------------
(* read_csv_safely on a file that decodes under some of the encodings *)

ExplicitEncodings == {None, "", "utf-16", "cp1252", "ascii"}
KnownEncodings == Range(FallbackEncodings) \cup {"utf-16", "ascii"}

InitRead ==
  /\ explicit_encoding \in ExplicitEncodings
  /\ decodable \in SUBSET KnownEncodings
  /\ read_result = NotCalled
  /\ IdleName /\ IdleCols /\ IdleTypes /\ IdleMove /\ IdleDelete /\ IdleS3 /\ IdleHandler

ReadStandalone ==
  /\ read_result = NotCalled
  /\ read_result' = read_csv_safely(explicit_encoding, decodable)
  /\ UNCHANGED <<explicit_encoding, decodable>>
  /\ UNCHANGED <<nameVars, colVars, typeVars, moveVars, deleteVars, handlerVars, s3Vars>>

SpecRead == InitRead /\ [][ReadStandalone]_vars

-----------------------------------------------------------------------------
(* _stabilize_dtypes on a column built cell by cell *)

MaxRows == 10

Text_Yes == <<"Y","e","s"," ">>
Text_1 == <<"1">>
Text_0 == <<"0">>
Text_abc == <<"a","b","c">>
Text_1234 == <<"1",",","2","3","4">>
Text_1_5 == <<"1",".","5">>
CellTexts == {Text_Yes, Text_1, Text_0, Text_abc, Text_1234, Text_1_5, Date_iso, Date_compact}

InitTypes ==
  /\ cells = [v \in CellTexts \cup {NoneSeq} |-> 0]
  /\ n_cells = 0
  /\ dtype = None
  /\ IdleName /\ IdleCols /\ IdleRead /\ IdleMove /\ IdleDelete /\ IdleS3 /\ IdleHandler

notTypeVars == <<nameVars, colVars, readVars, moveVars, deleteVars, handlerVars, s3Vars>>

\* the column gets one more cell: a text, or a null
AddCell ==
  /\ dtype = None
  /\ n_cells < MaxRows
  /\ \E v \in DOMAIN cells : cells' = [cells EXCEPT ![v] = @ + 1]
  /\ n_cells' = n_cells + 1
  /\ UNCHANGED <<dtype, notTypeVars>>

Stabilize ==
  /\ dtype = None
  /\ dtype' = stabilize_dtype(cells)
  /\ UNCHANGED <<cells, n_cells, notTypeVars>>

SpecTypes == InitTypes /\ [][AddCell \/ Stabilize]_vars

-----------------------------------------------------------------------------
(* move_to_raw_history *)

Str_t == <<"t">>
Str_u == <<"u">>
Str_f_csv == <<"f",".","c","s","v">>
MoveKeys == {Str_f_csv,
             <<"i","n","/">> \o Str_f_csv,
             Str_raw_history \o <<"/","t","/">> \o Str_f_csv,
             Str_raw_history \o <<"/","u","/">>}
Buckets == {"landing", "archive"}

InitMove ==
  /\ \E b \in Buckets, k \in MoveKeys, t \in {Str_t, Str_u}, d \in Buckets \cup {None, ""} :
       \E st \in SUBSET {<<b, k>>, <<b, Str_f_csv>>, <<IF d \in {None, ""} THEN b ELSE d,
                                                    Str_raw_history \o <<"/">> \o t \o <<"/">> \o Str_f_csv>>} :
         /\ mv = [bucket |-> b, src_key |-> k, table_name |-> t, dest_bucket |-> d, store0 |-> st]
         /\ store = st
  /\ mv_pc = "guard"
  /\ mv_calls = <<>>
  /\ IdleName /\ IdleCols /\ IdleRead /\ IdleTypes /\ IdleDelete /\ IdleS3 /\ IdleHandler

SpecMove == InitMove /\ [][MoveGuard \/ MoveCopy \/ MoveHead \/ MoveDelete]_vars

-----------------------------------------------------------------------------
(* _delete_prefix on listings of up to MaxPages pages; the keys are numbered *)

MaxPages == 2
PageSizes == {0, 1, 600, 1000}

RECURSIVE SumTo(_, _)
SumTo(sizes, p) == IF p = 0 THEN 0 ELSE sizes[p] + SumTo(sizes, p - 1)

NumberedListing(sizes) ==
  [p \in DOMAIN sizes |-> [i \in 1..sizes[p] |-> SumTo(sizes, p - 1) + i]]

Listed == UNION {Range(listing[p]) : p \in DOMAIN listing}

InitDelete ==
  /\ \E n \in 1..MaxPages : \E sizes \in [1..n -> PageSizes] : listing = NumberedListing(sizes)
  /\ page_i = 0
  /\ obj_i = 1
  /\ to_delete = <<>>
  /\ requests = <<>>
  /\ del_pc = "loop"
  /\ bucket_objs = Listed
  /\ io = <<>>
  /\ IdleName /\ IdleCols /\ IdleRead /\ IdleTypes /\ IdleMove /\ IdleHandler

SpecDelete == InitDelete /\ [][NextPage \/ AppendObject \/ FinalFlush]_vars

-----------------------------------------------------------------------------
(* an invocation of handler *)

Str_ab == <<"a","b">>
Str_zz == <<"z","z">>
HandlerKeys == {<<"A","b","_","1",".","c","s","v">>, <<"a","b",".","t","x","t">>, <<"1","b","_","2",".","c","s","v">>, <<"_","x",".","c","s","v">>}
EventLoadModes == {NoneSeq, Str_incremental, <<"O","v","e","r","w","r","i","t","e">>, <<"a","p","p","e","n","d">>}
EnvLoadModes == {Str_incremental, Str_overwrite, <<"r","e","p","l","a","c","e">>}
ParquetPrefixes == {<<>>, <<"/","p","/">>}
EncodingSettings == {<<None, None>>, <<"utf-16", "cp1252">>}
ObjectPool == {<<"a","b","/","x">>, <<"a","b","/","y">>, <<"a","b","/","z">>, <<"a","b","c","/","x">>, <<"p","/","a","b","/","x">>}
Catalogs == {{}, {Str_ab, Str_zz}}
\* the CSV file: the encodings it decodes under, its headers, one of its columns
HandlerFiles ==
  { [decodable |-> KnownEncodings, columns |-> << <<"N">>, <<"n"," ">> >>, cell |-> Text_1],
    [decodable |-> {"cp1252", "iso-8859-1"}, columns |-> << <<"a">> >>, cell |-> Text_abc],
    [decodable |-> {}, columns |-> << <<"a">> >>, cell |-> Text_abc] }

Init ==
  /\ pc = "start"
  /\ \E k \in HandlerKeys, m \in EventLoadModes, e \in EncodingSettings :
       /\ event = [csv_upload_key |-> k, load_mode |-> m, encoding |-> e[1]]
       /\ CSV_ENCODING = e[2]
  /\ GLUE_DATABASE \in {None, "db"}
  /\ LOAD_MODE \in EnvLoadModes
  /\ PARQUET_PREFIX \in ParquetPrefixes
  /\ catalog \in Catalogs
  /\ load_mode = NoneSeq
  /\ table_name = NoneSeq
  /\ outcome = None
  /\ bucket_objs \in SUBSET ObjectPool
  /\ before = [objs |-> bucket_objs, catalog |-> catalog]
  /\ io = <<>>
  /\ \E f \in HandlerFiles :
       /\ decodable = f.decodable
       /\ columns = f.columns
       /\ cells = [v \in {f.cell, NoneSeq} |-> 1]
       /\ n_cells = 2
  /\ explicit_encoding = None
  /\ new_cols = NoneSeq
  /\ read_result = NotCalled
  /\ dtype = None
  /\ IdleName /\ IdleMove /\ IdleDelete

Next ==
  \/ HandlerStart
  \/ EnsureDatabase
  \/ SelectLoadMode
  \/ NextPage
  \/ AppendObject
  \/ FinalFlush
  \/ DeletePrefixRaised
  \/ DropTable
  \/ ReadCsv
  \/ CleanAndNormalize
  \/ WriteParquet

Spec == Init /\ [][Next]_vars

-----------------------------------------------------------------------------
(* Properties of an invocation of handler (Spec) *)

Issued(op) == \E i \in DOMAIN io : io[i] = op
Destructive == {"delete_objects", "delete_table_if_exists"}
Started == pc # "start"

\* C1: in an invocation with load_mode = overwrite, the catalog table drop is
\* issued only after _delete_prefix has listed every page and sent every
\* batch, and when the Parquet write begins no object remains under the
\* table's prefix and the catalog table does not exist.
C1_OverwriteResetsBeforeWrite ==
  (Started /\ load_mode = Str_overwrite) =>
    /\ \A i \in DOMAIN io :
         io[i] = "delete_table_if_exists" =>
           /\ del_pc = "returned"
           /\ to_delete = <<>>
           /\ UNION {Range(requests[r]) : r \in DOMAIN requests} = Listed
           /\ \A j \in DOMAIN io : io[j] \in {"list_objects_v2", "delete_objects"} => j < i
    /\ pc = "write" =>
         /\ UnderPrefix(bucket_objs, TablePrefix(table_name)) = {}
         /\ table_name \notin catalog
         /\ Issued("delete_table_if_exists")

\* the write is about to begin after an overwrite that removed several pages
\* of objects and a registered table
C1_Witness ==
  /\ pc = "write"
  /\ load_mode = Str_overwrite
  /\ Cardinality(UnderPrefix(before.objs, TablePrefix(table_name))) >= 3
  /\ Len(listing) >= 2
  /\ table_name \in before.catalog

\* C2: a configuration error (no catalog database name, or a load mode that
\* is neither incremental nor overwrite) ends the invocation before any I/O:
\* no catalog call, no listing or deletion, no read, no write is issued.
C2_ConfigErrorBeforeAnyIO ==
  (Started /\ (GLUE_DATABASE = None \/ load_mode \notin {Str_incremental, Str_overwrite}))
    => io = <<>>

\* C3: when name resolution fails for the event's key, the invocation ends
\* with the naming error before any destructive or write action: nothing is
\* deleted, no table is dropped, nothing is written, whatever the load mode.
C3_NamingErrorBeforeAnyAction ==
  (Started /\ ~derive_name_from_key(event.csv_upload_key).ok) =>
    /\ pc = "raised"
    /\ outcome = "NamingError"
    /\ ~\E i \in DOMAIN io : io[i] \in Destructive \cup {"to_parquet"}
    /\ bucket_objs = before.objs
    /\ catalog = before.catalog

\* a naming error in an overwrite invocation on a bucket that holds objects
C3_Witness ==
  /\ pc = "raised"
  /\ outcome = "NamingError"
  /\ load_mode = Str_overwrite
  /\ before.objs # {}
  /\ before.catalog # {}

\* C8: in an invocation with load_mode = incremental nothing is deleted and
\* no table is dropped, so what the bucket and the catalog held before is
\* still there when the write begins; and a mode that is neither of the two
\* recognized values (compared in lower case, as the handler lowercases it)
\* ends the invocation with an error and without deleting anything.
C8_IncrementalDeletesNothing ==
  /\ (Started /\ load_mode = Str_incremental) =>
       /\ ~\E i \in DOMAIN io : io[i] \in Destructive \cup {"list_objects_v2"}
       /\ before.objs \subseteq bucket_objs
       /\ before.catalog \subseteq catalog
       /\ pc \in {"raised", "ensure_database", "mode", "read", "clean", "write"} =>
            bucket_objs = before.objs /\ catalog = before.catalog
  /\ (Started /\ load_mode \notin {Str_incremental, Str_overwrite}) =>
       /\ ~\E i \in DOMAIN io : io[i] \in Destructive \cup {"list_objects_v2"}
       /\ bucket_objs = before.objs
       /\ catalog = before.catalog
       /\ pc \in {"ensure_database", "mode", "raised"}
       /\ pc = "raised" => outcome \in {"NamingError", "CatalogError", "LoadModeError"}

\* the write is about to begin in an incremental invocation on a table that
\* has objects under its prefix and a catalog entry
C8_Witness ==
  /\ pc = "write"
  /\ load_mode = Str_incremental
  /\ UnderPrefix(before.objs, TablePrefix(table_name)) # {}
  /\ table_name \in before.catalog
  /\ bucket_objs = before.objs

-----------------------------------------------------------------------------
(* Properties of _delete_prefix (SpecDelete) *)

RECURSIVE TotalKeys(_)
TotalKeys(reqs) == IF reqs = <<>> THEN 0 ELSE Len(Head(reqs)) + TotalKeys(Tail(reqs))

Requested == UNION {Range(requests[r]) : r \in DOMAIN requests}

\* C10: whatever the pages of the listing, every bulk-delete request carries
\* between 1 and 1000 keys, only listed keys are requested, no key is
\* requested twice, and when _delete_prefix returns every listed key has been
\* requested (the last, partial batch included).  The requests change only
\* in a step that empties to_delete or raises, so the keys are compared in
\* those states.
C10_BatchesCoverListingOnce ==
  /\ \A r \in DOMAIN requests : Len(requests[r]) >= 1 /\ Len(requests[r]) <= 1000
  /\ (to_delete = <<>> \/ del_pc # "loop") =>
       /\ Requested \subseteq Listed
       /\ Cardinality(Requested) = TotalKeys(requests)
  /\ del_pc = "returned" => (Requested = Listed /\ to_delete = <<>>)

\* _delete_prefix has returned after a full batch that holds keys of two
\* pages and a last batch that is partial
C10_Witness ==
  /\ del_pc = "returned"
  /\ Len(listing) >= 2
  /\ Len(requests) = 2
  /\ Len(requests[1]) = 1000
  /\ Range(requests[1]) \cap Range(listing[1]) # {}
  /\ Range(requests[1]) \cap Range(listing[2]) # {}
  /\ Len(requests[2]) < 1000

-----------------------------------------------------------------------------
(* Properties of move_to_raw_history (SpecMove) *)

SameObject == DestBucket(mv) = mv.bucket /\ DestKey(mv) = mv.src_key
DeleteIssued == \E i \in DOMAIN mv_calls : mv_calls[i].op = "delete_object"
CallFailed(op) == \E i \in DOMAIN mv_calls : mv_calls[i].op = op /\ ~mv_calls[i].ok

\* C7: the source object is deleted only after the copy has been issued and
\* the destination's existence confirmed; when the copy or the existence
\* check fails, or source and destination are the same object, the source
\* object is never deleted.
C7_DeleteOnlyAfterConfirmedCopy ==
  mv_pc # "idle" =>
    /\ DeleteIssued =>
         /\ Len(mv_calls) = 3
         /\ mv_calls[1] = [op |-> "copy_object", ok |-> TRUE]
         /\ mv_calls[2] = [op |-> "head_object", ok |-> TRUE]
         /\ mv_calls[3].op = "delete_object"
         /\ DestObject(mv) \in store
    /\ (SrcObject(mv) \in mv.store0 /\ SrcObject(mv) \notin store) =>
         (DeleteIssued /\ DestObject(mv) \in store)
    /\ (CallFailed("copy_object") \/ CallFailed("head_object") \/ SameObject) =>
         /\ ~DeleteIssued
         /\ SrcObject(mv) \in mv.store0 => SrcObject(mv) \in store

\* the move has returned: the source is gone and the archive copy is there
C7_Witness ==
  /\ mv_pc = "returned"
  /\ SrcObject(mv) \in mv.store0
  /\ SrcObject(mv) \notin store
  /\ DestObject(mv) \in store
  /\ DestObject(mv) \notin mv.store0

-----------------------------------------------------------------------------
(* Properties of read_csv_safely (SpecRead) *)

Supplied == explicit_encoding \notin {None, ""}
OrderClaimed ==
  (IF Supplied THEN <<explicit_encoding>> ELSE <<>>)
    \o <<"utf-8", "utf-8-sig", "cp1252", "iso-8859-1">>
FirstDecoding ==
  CHOOSE i \in DOMAIN OrderClaimed :
    /\ OrderClaimed[i] \in decodable
    /\ \A j \in 1..(i - 1) : OrderClaimed[j] \notin decodable

\* C5: the candidates are tried in the order preferred encoding (if
\* supplied), utf-8, utf-8-sig, cp1252, iso-8859-1; the table is returned
\* decoded with the earliest candidate that raises no decode error (a file
\* valid only from cp1252 on, with no override, is read with cp1252, the third
\* candidate); the decode error is raised, naming every candidate, exactly
\* when every candidate fails.
C5_EarliestDecodingCandidateWins ==
  read_result # NotCalled =>
    /\ IF \E i \in DOMAIN OrderClaimed : OrderClaimed[i] \in decodable
       THEN /\ read_result.ok
            /\ read_result.value = OrderClaimed[FirstDecoding]
            /\ read_result.tried = SubSeq(OrderClaimed, 1, FirstDecoding - 1)
       ELSE /\ ~read_result.ok
            /\ read_result.error = "UnicodeDecodeError"
            /\ read_result.tried = OrderClaimed
    /\ (~Supplied /\ decodable \cap {"utf-8", "utf-8-sig"} = {} /\ "cp1252" \in decodable) =>
         (read_result.ok /\ read_result.value = "cp1252" /\ Len(read_result.tried) = 2)

\* a file that decodes as cp1252 and not as utf-8, read without an override
C5_Witness ==
  /\ read_result # NotCalled
  /\ explicit_encoding = None
  /\ decodable = {"cp1252", "iso-8859-1"}
  /\ read_result.ok
  /\ read_result.value = "cp1252"
  /\ read_result.tried = <<"utf-8", "utf-8-sig">>

-----------------------------------------------------------------------------
(* Properties of _stabilize_dtypes (SpecTypes) *)

BooleanTokens == {<<"t","r","u","e">>, <<"t">>, <<"y","e","s">>, <<"y">>, <<"1">>, <<"f","a","l","s","e">>, <<"f">>, <<"n","o">>, <<"n">>, <<"0">>}
Texts == {v \in CellTexts : cells[v] > 0}
NonNullCount == n_cells - cells[NoneSeq]
CountWhere(S) == SumOver(cells, S)
LooksBoolean ==
  LET distinct == {Lower(Strip(v)) : v \in Texts}
  IN  Cardinality(distinct) <= 2 /\ distinct \subseteq BooleanTokens
LooksDatetime ==
  10 * CountWhere({v \in Texts : ParsesAsDatetime(Strip(v))}) >= 9 * NonNullCount
LooksNumeric ==
  10 * CountWhere({v \in Texts : ParsesAsNumber(RemoveCommas(Strip(v)))}) >= 9 * NonNullCount

\* C6: a text column with a non-null value gets the earliest passing category
\* of boolean, datetime, numeric, string: boolean when its distinct lowercased
\* trimmed values are at most 2 and all boolean tokens, else timestamp when at
\* least 0.9 of the non-null cells parse as datetimes, else integer or float
\* when at least 0.9 parse as numbers once commas are removed, else string.
\* A column of "1" and "0" is boolean; 8 dates among 10 cells give no timestamp.
C6_EarliestCategoryWins ==
  (dtype # None /\ NonNullCount >= 1) =>
    /\ IF LooksBoolean THEN dtype = "boolean"
       ELSE IF LooksDatetime THEN dtype = "datetime64"
       ELSE IF LooksNumeric THEN dtype \in {"Int64", "float64"}
       ELSE dtype = "string"
    /\ (Texts = {Text_1, Text_0}) => dtype = "boolean"
    /\ (cells[Date_iso] = 8 /\ cells[Text_abc] = 2 /\ NonNullCount = 10) => dtype = "string"

\* a column of 8 dates and 2 other texts has been given its type
C6_Witness ==
  /\ dtype = "string"
  /\ cells[Date_iso] = 8
  /\ cells[Text_abc] = 2
  /\ n_cells = 10

-----------------------------------------------------------------------------
(* Properties of the column sanitization (SpecCols) *)

IsLowerLetter(c) == c \in Range(LowerLetters)
ValidColumnName(n) ==
  /\ n # <<>>
  /\ IsLowerLetter(n[1])
  /\ \A i \in DOMAIN n : IsLowerLetter(n[i]) \/ n[i] \in Digits \/ n[i] = "_"

\* C4: for a table with K headers the sanitization returns K names, all
\* pairwise distinct, each non-empty, starting with a letter, lowercase and
\* made of letters, digits and underscore only.
C4_SanitizedNamesUniqueAndValid ==
  new_cols # NoneSeq =>
    /\ Len(new_cols) = Len(columns)
    /\ \A i, j \in DOMAIN new_cols : i # j => new_cols[i] # new_cols[j]
    /\ \A i \in DOMAIN new_cols : ValidColumnName(new_cols[i])

-----------------------------------------------------------------------------
(* Properties of derive_name_from_key (SpecName) *)

\* ^[A-Za-z][A-Za-z0-9_]*$ over the whole text
MatchesWholePattern(base) ==
  /\ base # <<>>
  /\ IsLetter(base[1])
  /\ \A i \in DOMAIN base : IsWordChar(base[i])
KeyExtension == Splitext(Basename(s3_key)).ext
KeyBase == BeforeFirstUnderscore(Splitext(Basename(s3_key)).name)

\* C9: derive_name_from_key either fails or returns a name that is non-empty,
\* starts with a letter, holds only lowercase letters, digits and underscore
\* and is at most 255 long; it fails whenever the extension is not .csv
\* (whatever its case) or the part of the filename before the first
\* underscore does not match ^[A-Za-z][A-Za-z0-9_]*$, and otherwise returns
\* that part lowercased and cut to 255 characters.
C9_DerivedNameValid ==
  name_result # NotCalled =>
    /\ name_result.ok =>
         /\ ValidColumnName(name_result.value)
         /\ Len(name_result.value) <= 255
    /\ (Lower(KeyExtension) # Str_csv \/ ~MatchesWholePattern(KeyBase)) => ~name_result.ok
    /\ (Lower(KeyExtension) = Str_csv /\ MatchesWholePattern(KeyBase)) =>
         /\ name_result.ok
         /\ name_result.value = SubSeq(Lower(KeyBase), 1, IF Len(KeyBase) > 255 THEN 255 ELSE Len(KeyBase))

====
